---- MODULE Spec2Model ----
(***************************************************************************)
(* Backfill orchestration of airflow/cli/commands/dag_command.py:          *)
(* dag_backfill and _run_dag_backfill, together with the collaborators     *)
(* they call on airflow.models.dag.DAG (partial_subset,                    *)
(* iter_dagrun_infos_between, clear_dags, run), which are modelled from    *)
(* the design document.                                                    *)
(***************************************************************************)
EXTENDS Integers, Sequences, FiniteSets, TLC

\* ------------------------------------------------------------------ bounds
\* Logical dates are 1..MaxDate; NoDate stands for an absent boundary (None).
MaxDate == 2
\* A named pool has 1..MaxPoolSlots slots.
MaxPoolSlots == 2

NoDate == 0
NoPool == 0
Dates == 1..MaxDate

\* ------------------------------------------------------- workflow catalogue
\* Task identifiers are character sequences, so that a pattern is matched
\* against them the way a regular-expression search is.
t0 == <<"t", "0">>
t1 == <<"t", "1">>
t2 == <<"t", "2">>

DagIds == {"a", "b"}

\* dag.tasks, in definition order.  "a" is the chain t0 -> t1 -> t2, "b" has
\* two independent tasks.
DagTasks(d) == IF d = "a" THEN <<t0, t1, t2>> ELSE <<t0, t1>>

\* Direct upstream task ids of task t in workflow d.
Upstream(d, t) ==
    IF d = "a" THEN (IF t = t1 THEN {t0} ELSE IF t = t2 THEN {t1} ELSE {})
    ELSE {}

\* Schedule rule of a workflow as a fixed cadence in days, anchored at date 1.
Cadence(d) == IF d = "a" THEN 1 ELSE 2

\* Tasks whose code can fail when really executed.
MayFail(d) == IF d = "a" THEN {t1} ELSE {t1}

AllTasks == {t0, t1, t2}

\* ------------------------------------------------------------------ helpers
Range(s) == {s[i] : i \in 1..Len(s)}

RECURSIVE Reverse(_)
Reverse(s) == IF s = <<>> THEN <<>> ELSE Append(Reverse(Tail(s)), Head(s))

\* Python's `x or y` on optional dates: None is the only falsy value.
DateOr(x, y) == IF x # NoDate THEN x ELSE y

\* dag_id ordering used as the sort key (lexicographic on identifiers).
DagRank(d) == IF d = "a" THEN 1 ELSE 2

\* Variant: the list is used in the order it was given.
SortByDagIdNone(s) == s

\* list.sort(key=lambda d: d.dag_id)
SortByDagId(s) == SortSeq(s, LAMBDA x, y : DagRank(x) < DagRank(y))

\* json.loads on the conf payloads of the model: "{}" parses to an (empty)
\* mapping, "{" is not valid JSON and raises.
ConfAbsent == ""
ConfValid == "{}"
ConfMalformed == "{"
Confs == {ConfAbsent, ConfValid, ConfMalformed}
\* Variant: a parse error is swallowed.
JsonParsesLenient(c) == TRUE
JsonParses(c) == c = ConfValid
JsonLoads(c) == IF c = ConfValid THEN "dict" ELSE "error"


\* ------------------------------------------------ collaborators on DAG
\* re.search of a literal pattern p in the identifier id.
Matches(p, id) ==
    \E i \in 1..(Len(id) - Len(p) + 1) : SubSeq(id, i, i + Len(p) - 1) = p

\* Task ids of workflow d that the pattern matches directly.
DirectMatches(d, p) == {t \in Range(DagTasks(d)) : Matches(p, t)}

\* Transitive closure of S under the upstream relation of workflow d.
RECURSIVE UpstreamClosure(_, _)
UpstreamClosure(d, S) ==
    LET S2 == S \cup UNION {Upstream(d, t) : t \in S}
    IN  IF S2 = S THEN S ELSE UpstreamClosure(d, S2)

\* TaskSubsetSelector: the selected task set.
SelectedSet(d, p, include_upstream) ==
    IF include_upstream
    THEN UpstreamClosure(d, DirectMatches(d, p))
    ELSE DirectMatches(d, p)

\* dag.partial_subset(...).tasks: the sub-workflow's task list, in dag.tasks
\* order.
PartialSubset(d, p, include_upstream) ==
    SelectSeq(DagTasks(d), LAMBDA t : t \in SelectedSet(d, p, include_upstream))

\* Logical dates of workflow d in lo..hi, ascending.
RECURSIVE DatesFrom(_, _, _)
DatesFrom(d, lo, hi) ==
    IF lo > hi THEN <<>>
    ELSE (IF (lo - 1) % Cadence(d) = 0 THEN <<lo>> ELSE <<>>)
         \o DatesFrom(d, lo + 1, hi)

\* dag.iter_dagrun_infos_between(earliest, latest): always ascending.
IterDagrunInfosBetween(d, earliest, latest) == DatesFrom(d, earliest, latest)

\* IntervalEnumerator as used by dag.run: direction applied.
Enumerate(d, start, end, backwards) ==
    IF backwards
    THEN Reverse(IterDagrunInfosBetween(d, start, end))
    ELSE IterDagrunInfosBetween(d, start, end)

\* ------------------------------------------------------------------- state
VARIABLES
    args,        \* the parsed command-line namespace (mutated at lines 64-65)
    dags,        \* the list of workflows of the invocation
    run_conf,    \* parsed conf payload ("none" until parsed)
    pc,          \* position of the control logic
    di,          \* index into dags of the workflow being processed
    tasks,       \* dag.tasks of the (possibly partial) current workflow
    infos,       \* intervals still to be delivered by the enumerator
    dr,          \* logical date of the run being built or executed (0: none)
    tix,         \* dry run: index into tasks of the next task
    runs,        \* persisted RunRecords: (workflow, date) -> state
    tis,         \* persisted TaskRecords: (workflow, date, task) -> state
    sleeping,    \* executor is in its delay_on_limit_secs wait
    out,         \* lines printed so far
    dry_checks,  \* (workflow, date, task) of every ti.dry_run() call, in order
    processed,   \* (workflow, date) of every really executed run, in order
    reset_log,   \* per workflow: the confirmation reply of its reset ("none": no reset)
    status,      \* completion status: -1 while running, then 0 or 1
    error,       \* the error that ended the invocation ("none" if none)
    one_date     \* exactly one boundary was supplied on the command line

vars == <<args, dags, run_conf, pc, di, tasks, infos, dr, tix, runs, tis,
          sleeping, out, dry_checks, processed, reset_log, status, error,
          one_date>>

persisted == <<runs, tis>>

NoPattern == <<>>
Patterns == {NoPattern, <<"1">>, <<"2">>}

RunStates == {"none", "QUEUED", "RUNNING", "SUCCESS", "FAILED"}
TaskStates == {"none", "QUEUED", "RUNNING", "SUCCESS", "FAILED", "UPSTREAM_FAILED"}
FinishedStates == {"SUCCESS", "FAILED", "UPSTREAM_FAILED"}

\* Records left by an earlier, failed backfill of date 1: the first task
\* succeeded, the second failed, the rest never ran.
PriorRuns == [k \in DagIds \X Dates |-> IF k[2] = 1 THEN "FAILED" ELSE "none"]
PriorTis ==
    [k \in DagIds \X Dates \X AllTasks |->
        IF k[2] # 1 \/ k[3] \notin Range(DagTasks(k[1])) THEN "none"
        ELSE IF k[3] = t0 THEN "SUCCESS"
        ELSE IF k[3] = t1 THEN "FAILED"
        ELSE "UPSTREAM_FAILED"]

\* A window is valid when it is not inverted; an absent boundary is allowed.
ValidWindow(s, e) == s = NoDate \/ e = NoDate \/ s <= e

DagLists == {<<"b">>, <<"b", "a">>}

\* The invocations of the model.
Invocations ==
    {a \in [start_date : 0..MaxDate, end_date : 0..MaxDate, conf : Confs,
            task_regex : Patterns, pool : 0..MaxPoolSlots,
            dry_run : BOOLEAN, reset_dagruns : BOOLEAN, yes : BOOLEAN,
            mark_success : BOOLEAN, rerun_failed_tasks : BOOLEAN,
            run_backwards : BOOLEAN, continue_on_failures : BOOLEAN,
            ignore_dependencies : BOOLEAN] :
        /\ ValidWindow(a.start_date, a.end_date)}

Init ==
    /\ args \in Invocations
    /\ dags \in DagLists
    /\ run_conf = "none"
    /\ pc = "dag_backfill"
    /\ di = 1
    /\ tasks = <<>>
    /\ infos = <<>>
    /\ dr = 0
    /\ tix = 1
    /\ runs = PriorRuns
    /\ tis = PriorTis
    /\ sleeping = FALSE
    /\ out = <<>>
    /\ dry_checks = <<>>
    /\ processed = <<>>
    /\ reset_log = [d \in DagIds |-> "none"]
    /\ status = -1
    /\ error = "none"
    /\ one_date = ((args.start_date = NoDate) # (args.end_date = NoDate))

\* Variant: errors are reported but the process still ends with success.
ExitStatusZero(e) == 0

\* Completion status of the process: an uncaught exception or sys.exit(1)
\* gives 1, a normal return 0.
ExitStatus(e) == IF e = "none" THEN 0 ELSE 1

\* An uncaught exception (or sys.exit(1)) ends the invocation.
Abort(e) ==
    /\ pc' = "done"
    /\ status' = ExitStatus(e)
    /\ error' = e

\* ------------------------------------------------------------ dag_backfill
\* Lines 152-164: window check, workflow list, sort, call.
DagBackfill ==
    /\ pc = "dag_backfill"
    /\ IF args.start_date = NoDate /\ args.end_date = NoDate
       THEN /\ Abort("ProvideDates")
            /\ UNCHANGED dags
       ELSE /\ dags' = SortByDagId(dags)
            /\ pc' = "run_dag_backfill"
            /\ UNCHANGED <<status, error>>
    /\ UNCHANGED <<one_date, args, run_conf, di, tasks, infos, dr, tix, runs, tis,
                   sleeping, out, dry_checks, processed, reset_log>>

\* Variant: only the end boundary gets its default.
DefaultDatesEndOnly(a) ==
    [a EXCEPT !.end_date = DateOr(a.end_date, a.start_date)]

\* Lines 64-65: each boundary defaults to the other.
DefaultDates(a) ==
    LET e == DateOr(a.end_date, a.start_date)
    IN  [a EXCEPT !.end_date = e, !.start_date = DateOr(a.start_date, e)]

\* Lines 62-69: date defaults, then the conf payload is parsed.
RunDagBackfillEntry ==
    /\ pc = "run_dag_backfill"
    /\ args' = DefaultDates(args)
    /\ IF args.conf # ConfAbsent
       THEN IF JsonParses(args.conf)
            THEN /\ run_conf' = JsonLoads(args.conf)
                 /\ pc' = "for_dag"
                 /\ UNCHANGED <<status, error>>
            ELSE /\ Abort("JSONDecodeError")
                 /\ UNCHANGED run_conf
       ELSE /\ pc' = "for_dag"
            /\ UNCHANGED <<run_conf, status, error>>
    /\ UNCHANGED <<one_date, dags, di, tasks, infos, dr, tix, runs, tis,
                   sleeping, out, dry_checks, processed, reset_log>>

\* ------------------------------------------------------- _run_dag_backfill
\* The workflow the loop of line 71 is at.
dag == dags[di]

\* Variant: the negation is missing.
IncludeUpstreamFlipped == args.ignore_dependencies

\* Line 74: include_upstream = not args.ignore_dependencies.
IncludeUpstream == ~args.ignore_dependencies

\* Lines 72-75: the task list the rest of the loop body works on.
SubsetTasks(d) ==
    IF args.task_regex # NoPattern
    THEN PartialSubset(d, args.task_regex, IncludeUpstream)
    ELSE DagTasks(d)

\* Variant: the reset is requested before the dry-run test.
BodyBranchResetFirst ==
    IF args.reset_dagruns THEN "reset"
    ELSE IF args.dry_run THEN "dry_run"
    ELSE "run"

\* Lines 81, 96-97: which branch the loop body takes after task selection.
BodyBranch ==
    IF args.dry_run THEN "dry_run"
    ELSE IF args.reset_dagruns THEN "reset"
    ELSE "run"

\* Lines 71-80: next workflow of the loop, task selection, empty check.
ForDag ==
    /\ pc = "for_dag"
    /\ di <= Len(dags)
    /\ IF args.task_regex # NoPattern /\ SubsetTasks(dag) = <<>>
       THEN /\ Abort("NoTasksMatch")
            /\ UNCHANGED tasks
       ELSE /\ tasks' = SubsetTasks(dag)
            /\ pc' = BodyBranch
            /\ UNCHANGED <<status, error>>
    /\ UNCHANGED <<one_date, args, dags, run_conf, di, infos, dr, tix, runs, tis,
                   sleeping, out, dry_checks, processed, reset_log>>

\* Lines 82-83: header line, then the interval sequence of the dry run.
DryRunIntervals(d) == IterDagrunInfosBetween(d, args.start_date, args.end_date)

DryHeader ==
    /\ pc = "dry_run"
    /\ out' = Append(out, <<"Dry run of DAG", dag, args.start_date>>)
    /\ infos' = DryRunIntervals(dag)
    /\ dr' = 0
    /\ pc' = "dry_loop"
    /\ UNCHANGED <<one_date, args, dags, run_conf, di, tasks, tix, runs, tis,
                   sleeping, dry_checks, processed, reset_log, status, error>>

\* Lines 84-89: the next interval's transient DagRun is built (not persisted).
DryNextInterval ==
    /\ pc = "dry_loop"
    /\ dr = 0
    /\ infos # <<>>
    /\ dr' = Head(infos)
    /\ infos' = Tail(infos)
    /\ tix' = 1
    /\ UNCHANGED <<one_date, args, dags, run_conf, pc, di, tasks, runs, tis,
                   sleeping, out, dry_checks, processed, reset_log, status, error>>

\* Variant: the trace line is printed but the dry check is not made.
DryTaskNoCheck ==
    /\ pc = "dry_loop"
    /\ dr # 0
    /\ tix <= Len(tasks)
    /\ out' = Append(out, <<"Task located in DAG", tasks[tix], dag>>)
    /\ IF tix = Len(tasks)
       THEN /\ dr' = 0
            /\ tix' = 1
       ELSE /\ tix' = tix + 1
            /\ UNCHANGED dr
    /\ UNCHANGED <<one_date, args, dags, run_conf, pc, di, tasks, infos, runs, tis,
                   sleeping, dry_checks, processed, reset_log, status, error>>

\* Lines 91-95: one task of the current interval: trace line and dry check.
DryTask ==
    /\ pc = "dry_loop"
    /\ dr # 0
    /\ tix <= Len(tasks)
    /\ out' = Append(out, <<"Task located in DAG", tasks[tix], dag>>)
    /\ dry_checks' = Append(dry_checks, <<dag, dr, tasks[tix]>>)
    /\ IF tix = Len(tasks)
       THEN /\ dr' = 0
            /\ tix' = 1
       ELSE /\ tix' = tix + 1
            /\ UNCHANGED dr
    /\ UNCHANGED <<one_date, args, dags, run_conf, pc, di, tasks, infos, runs, tis,
                   sleeping, processed, reset_log, status, error>>

\* Line 84 exhausted: the loop of line 71 moves to the next workflow.
DryDone ==
    /\ pc = "dry_loop"
    /\ dr = 0
    /\ infos = <<>>
    /\ pc' = "for_dag"
    /\ di' = di + 1
    /\ UNCHANGED <<one_date, args, dags, run_conf, tasks, infos, dr, tix, runs, tis,
                   sleeping, out, dry_checks, processed, reset_log, status, error>>

\* ------------------------------------------------------------ RunStateResetter
InWindow(date) == args.start_date <= date /\ date <= args.end_date

\* DAG.clear_dags, confirmed: existing runs of the window and their records
\* for the tasks in scope go back to QUEUED.
ClearedRuns(d) ==
    [k \in DOMAIN runs |->
        IF k[1] = d /\ InWindow(k[2]) /\ runs[k] # "none" THEN "QUEUED" ELSE runs[k]]

ClearedTis(d) ==
    [k \in DOMAIN tis |->
        IF k[1] = d /\ InWindow(k[2]) /\ k[3] \in Range(tasks) /\ tis[k] # "none"
        THEN "QUEUED" ELSE tis[k]]

\* Variant: the negation is missing.
ConfirmPromptFlipped == args.yes

\* Line 102: confirm_prompt = not args.yes.
ConfirmPrompt == ~args.yes

\* The confirmation collaborator's replies: asked only when confirm_prompt.
Answers == IF ConfirmPrompt THEN {"yes", "no"} ELSE {"not_asked"}

\* Lines 97-105: the reset; a declined confirmation skips it and goes on.
Reset ==
    /\ pc = "reset"
    /\ \E answer \in Answers :
          /\ reset_log' = [reset_log EXCEPT ![dag] = answer]
          /\ IF answer # "no"
             THEN /\ runs' = ClearedRuns(dag)
                  /\ tis' = ClearedTis(dag)
             ELSE UNCHANGED <<runs, tis>>
    /\ pc' = "run"
    /\ UNCHANGED <<one_date, args, dags, run_conf, di, tasks, infos, dr, tix,
                   sleeping, out, dry_checks, processed, status, error>>

\* ------------------------------------------------------- BackfillExecutor
\* Line 108: dag.run starts; the enumerator delivers the intervals in the
\* requested direction.
RunBackwards == args.run_backwards              \* line 121
\* Variant: the option is not handed to dag.run.
ContinueOnFailuresDropped == FALSE
ContinueOnFailures == args.continue_on_failures  \* line 122
MarkSuccess == args.mark_success                 \* line 111
RerunFailedTasks == args.rerun_failed_tasks      \* line 120
IgnoreTaskDeps == args.ignore_dependencies       \* line 115
\* Variant: the pool is not handed to dag.run.
RunPoolDropped == NoPool
RunPool == args.pool                             \* line 116

RunIntervals(d) == Enumerate(d, args.start_date, args.end_date, RunBackwards)

RunStart ==
    /\ pc = "run"
    /\ infos' = RunIntervals(dag)
    /\ dr' = 0
    /\ pc' = "executor"
    /\ UNCHANGED <<one_date, args, dags, run_conf, di, tasks, tix, runs, tis,
                   sleeping, out, dry_checks, processed, reset_log, status, error>>

\* Step 1: the state a selected task's record starts the interval in.  SUCCESS
\* records are kept; other existing records are re-queued only under
\* rerun_failed_tasks.
StartState(s) ==
    IF s = "SUCCESS" THEN "SUCCESS"
    ELSE IF s = "none" THEN "QUEUED"
    ELSE IF RerunFailedTasks THEN "QUEUED"
    ELSE s

\* Steps 1-2: obtain or create the RunRecord of the next interval, mark it
\* RUNNING.
BeginInterval ==
    /\ pc = "executor"
    /\ dr = 0
    /\ infos # <<>>
    /\ LET date == Head(infos) IN
          /\ runs' = [runs EXCEPT ![<<dag, date>>] = "RUNNING"]
          /\ tis' = [k \in DOMAIN tis |->
                        IF k[1] = dag /\ k[2] = date /\ k[3] \in Range(tasks)
                        THEN StartState(tis[k]) ELSE tis[k]]
          /\ processed' = Append(processed, <<dag, date>>)
          /\ dr' = date
    /\ infos' = Tail(infos)
    /\ UNCHANGED <<one_date, args, dags, run_conf, pc, di, tasks, tix,
                   sleeping, out, dry_checks, reset_log, status, error>>

key(t) == <<dag, dr, t>>

\* Upstream tasks of t inside the (partial) workflow being run.
Deps(t) == Upstream(dag, t) \cap Range(tasks)

\* Dependency order, unless bypassed by ignore_task_deps.
Ready(t) ==
    /\ tis[key(t)] = "QUEUED"
    /\ IgnoreTaskDeps \/ \A u \in Deps(t) : tis[key(u)] = "SUCCESS"

RunningCount == Cardinality({k \in DOMAIN tis : tis[k] = "RUNNING"})

\* The pool's check: a slot is free (no named pool: not bounded here).
HasCapacity == RunPool = NoPool \/ RunningCount < RunPool

\* Step 3: admission of a ready task, check and reservation in one step; a
\* saturated pool sends the executor into its delay_on_limit_secs wait.
Admission(t) ==
    /\ pc = "executor"
    /\ dr # 0
    /\ ~sleeping
    /\ t \in Range(tasks)
    /\ Ready(t)
    /\ IF HasCapacity
       THEN /\ tis' = [tis EXCEPT ![key(t)] = "RUNNING"]
            /\ UNCHANGED sleeping
       ELSE /\ sleeping' = TRUE
            /\ UNCHANGED tis
    /\ UNCHANGED <<one_date, args, dags, run_conf, pc, di, tasks, infos, dr, tix, runs,
                   out, dry_checks, processed, reset_log, status, error>>

\* The wait is over; admission is attempted again.
WakeUp ==
    /\ pc = "executor"
    /\ sleeping
    /\ sleeping' = FALSE
    /\ UNCHANGED <<one_date, args, dags, run_conf, pc, di, tasks, infos, dr, tix, runs, tis,
                   out, dry_checks, processed, reset_log, status, error>>

\* A task with a failed upstream task is not run.
UpstreamFailed(t) ==
    /\ pc = "executor"
    /\ dr # 0
    /\ t \in Range(tasks)
    /\ tis[key(t)] = "QUEUED"
    /\ ~IgnoreTaskDeps
    /\ \E u \in Deps(t) : tis[key(u)] \in {"FAILED", "UPSTREAM_FAILED"}
    /\ tis' = [tis EXCEPT ![key(t)] = "UPSTREAM_FAILED"]
    /\ UNCHANGED <<one_date, args, dags, run_conf, pc, di, tasks, infos, dr, tix, runs,
                   sleeping, out, dry_checks, processed, reset_log, status, error>>

\* Outcomes of a task's execution; mark_success skips real execution.
Outcomes(t) ==
    IF MarkSuccess THEN {"SUCCESS"}
    ELSE IF t \in MayFail(dag) THEN {"SUCCESS", "FAILED"}
    ELSE {"SUCCESS"}

\* Steps 3-4: a running task finishes and frees its slot.
Complete(t) ==
    /\ pc = "executor"
    /\ dr # 0
    /\ t \in Range(tasks)
    /\ tis[key(t)] = "RUNNING"
    /\ \E o \in Outcomes(t) : tis' = [tis EXCEPT ![key(t)] = o]
    /\ UNCHANGED <<one_date, args, dags, run_conf, pc, di, tasks, infos, dr, tix, runs,
                   sleeping, out, dry_checks, processed, reset_log, status, error>>

\* Step 5: the state the run ends in.
RunOutcome ==
    IF \A t \in Range(tasks) : tis[key(t)] = "SUCCESS" THEN "SUCCESS" ELSE "FAILED"

\* Step 6: after a FAILED run, are the remaining intervals dropped?
HaltsOnFailure == ~ContinueOnFailures

\* Steps 5-6: the interval's run ends; first failure halts the enumeration
\* unless continue_on_failures.
EndInterval ==
    /\ pc = "executor"
    /\ dr # 0
    /\ \A t \in Range(tasks) : tis[key(t)] \in FinishedStates
    /\ runs' = [runs EXCEPT ![<<dag, dr>>] = RunOutcome]
    /\ dr' = 0
    /\ sleeping' = FALSE
    /\ pc' = IF RunOutcome = "FAILED" /\ HaltsOnFailure THEN "run_end" ELSE "executor"
    /\ UNCHANGED <<one_date, args, dags, run_conf, di, tasks, infos, tix, tis,
                   out, dry_checks, processed, reset_log, status, error>>

\* Some run this invocation executed for workflow d ended FAILED.
AnyFailed(d) ==
    \E i \in 1..Len(processed) :
        processed[i][1] = d /\ runs[processed[i]] = "FAILED"

\* Lines 107-127: dag.run ends: it returns, or reports overall failure by
\* raising, which ends the invocation (sys.exit(1) or the exception itself).
RunExit ==
    /\ \/ pc = "run_end"
       \/ pc = "executor" /\ dr = 0 /\ infos = <<>>
    /\ IF AnyFailed(dag)
       THEN /\ Abort("BackfillUnfinished")
            /\ UNCHANGED di
       ELSE /\ pc' = "for_dag"
            /\ di' = di + 1
            /\ UNCHANGED <<status, error>>
    /\ UNCHANGED <<one_date, args, dags, run_conf, tasks, infos, dr, tix, runs, tis,
                   sleeping, out, dry_checks, processed, reset_log>>

\* Lines 164-166: the loop is exhausted and dag_backfill returns.
Finish ==
    /\ pc = "for_dag"
    /\ di > Len(dags)
    /\ pc' = "done"
    /\ status' = ExitStatus(error)
    /\ UNCHANGED <<one_date, args, dags, run_conf, di, tasks, infos, dr, tix, runs, tis,
                   sleeping, out, dry_checks, processed, reset_log, error>>

Control ==
    \/ DagBackfill
    \/ RunDagBackfillEntry
    \/ ForDag
    \/ DryHeader
    \/ DryNextInterval
    \/ DryTask
    \/ DryDone
    \/ Reset
    \/ RunStart
    \/ BeginInterval
    \/ WakeUp
    \/ EndInterval
    \/ RunExit
    \/ Finish

Next ==
    \/ Control
    \/ \E t \in AllTasks : Admission(t)
    \/ \E t \in AllTasks : UpstreamFailed(t)
    \/ \E t \in AllTasks : Complete(t)

Spec == Init /\ [][Next]_vars

\* The control logic keeps running, workers finish what they run, and a
\* ready task's admission keeps being attempted.
Fairness ==
    /\ WF_vars(Control)
    /\ \A t \in AllTasks : WF_vars(Admission(t))
    /\ \A t \in AllTasks : WF_vars(UpstreamFailed(t))
    /\ \A t \in AllTasks : WF_vars(Complete(t))

\* Invocations that pass the validation of lines 64-69 unchanged: both
\* boundaries given, no conf payload, confirmation asked of the user.
InitFair ==
    /\ Init
    /\ args.conf = ConfAbsent
    /\ ~args.yes
    /\ args.start_date # NoDate /\ args.end_date # NoDate

FairSpec == InitFair /\ [][Next]_vars /\ Fairness

TypeOK ==
    /\ pc \in {"dag_backfill", "run_dag_backfill", "for_dag", "dry_run", "dry_loop",
               "reset", "run", "executor", "run_end", "done"}
    /\ status \in {-1, 0, 1}
    /\ \A k \in DOMAIN runs : runs[k] \in RunStates
    /\ \A k \in DOMAIN tis : tis[k] \in TaskStates

\* ================================================================= claims
NoResetYet == \A d \in DagIds : reset_log[d] = "none"

PersistedUntouched == runs = PriorRuns /\ tis = PriorTis

\* Nothing of the loop body has happened for any workflow.
NothingTouched ==
    /\ PersistedUntouched
    /\ NoResetYet
    /\ processed = <<>>
    /\ dry_checks = <<>>
    /\ out = <<>>

\* C1: an invocation whose conf payload is present but not parseable never
\* gets past the conf parsing: it ends with a non-zero status, before any
\* task selection, reset, interval enumeration or execution; no RunRecord
\* is created and no RunRecord or TaskRecord changes state.
C1_MalformedConfAborts ==
    args.conf = ConfMalformed =>
        /\ pc \in {"dag_backfill", "run_dag_backfill", "done"}
        /\ pc = "done" => status = 1 /\ error \in {"JSONDecodeError", "ProvideDates"}
        /\ tasks = <<>>
        /\ infos = <<>>
        /\ run_conf = "none"
        /\ NothingTouched

C1_Witness ==
    /\ args.conf = ConfMalformed
    /\ ~args.dry_run
    /\ args.reset_dagruns
    /\ pc = "done"
    /\ error = "JSONDecodeError"
    /\ status = 1

\* C2 (as claimed): when the pattern selects no task in some workflow, the
\* empty-selection error is raised before anything was touched for any
\* workflow of the invocation: no reset, no run created or executed, no
\* dry-run trace line.
C2_EmptySelectionBeforeAnything ==
    error = "NoTasksMatch" => NothingTouched

\* C3: a dry-run invocation never changes persisted state, whatever the
\* other flags: RunRecords and TaskRecords stay as they were, and the reset
\* and real-execution steps are never taken.
C3_DryRunFrame ==
    args.dry_run =>
        /\ PersistedUntouched
        /\ NoResetYet
        /\ processed = <<>>
        /\ pc \notin {"reset", "run", "executor", "run_end"}

C3_Witness ==
    /\ args.dry_run
    /\ args.reset_dagruns
    /\ args.mark_success
    /\ args.rerun_failed_tasks
    /\ pc = "done"
    /\ status = 0
    /\ Len(dry_checks) >= 4

\* ------------------------------------------------------- claim vocabulary
IsPrefix(p, q) == Len(p) <= Len(q) /\ SubSeq(q, 1, Len(p)) = p

\* The window after each boundary has defaulted to the other.
Lo == DateOr(args.start_date, args.end_date)
Hi == DateOr(args.end_date, args.start_date)

\* The logical dates of workflow d in the window, as a set.
WindowDates(d) == {x \in Dates : Lo <= x /\ x <= Hi /\ (x - 1) % Cadence(d) = 0}

\* The same dates ascending (by start).
AscDates(d) ==
    LET S == WindowDates(d)
    IN  CHOOSE q \in [1..Cardinality(S) -> S] :
            \A i, j \in 1..Cardinality(S) : i < j => q[i] < q[j]

\* The order the claim asks of an invocation: ascending, reversed under
\* run_backwards.
RequestedOrder(d) == IF args.run_backwards THEN Reverse(AscDates(d)) ELSE AscDates(d)

\* Dates of the runs really executed for workflow d, in execution order.
ProcessedDates(d) ==
    LET q == SelectSeq(processed, LAMBDA e : e[1] = d)
    IN  [i \in 1..Len(q) |-> q[i][2]]

RECURSIVE Dedup(_)
Dedup(q) ==
    IF Len(q) <= 1 THEN q
    ELSE IF q[1] = q[2] THEN Dedup(Tail(q))
    ELSE <<q[1]>> \o Dedup(Tail(q))

\* Dates of the transient runs the dry run walked for workflow d, in order.
DryDates(d) ==
    LET q == SelectSeq(dry_checks, LAMBDA e : e[1] = d)
    IN  Dedup([i \in 1..Len(q) |-> q[i][2]])

InBody == pc \in {"dry_run", "dry_loop", "reset", "run", "executor", "run_end"}

SomeProcessedFailed == \E i \in 1..Len(processed) : runs[processed[i]] = "FAILED"

\* C4: with a named pool the number of RUNNING TaskRecords never exceeds the
\* pool's slots; a record becomes RUNNING only in a step that found a free
\* slot; an admission attempt on a saturated pool changes no TaskRecord (the
\* task is not failed) and puts the executor into its wait.
C4_PoolBound ==
    /\ [](args.pool # NoPool => RunningCount <= args.pool)
    /\ [][\A k \in DOMAIN tis :
            (tis[k] # "RUNNING" /\ tis'[k] = "RUNNING") =>
                (args.pool # NoPool => RunningCount < args.pool)]_vars
    /\ [][(~sleeping /\ sleeping') =>
            (tis' = tis /\ args.pool # NoPool /\ RunningCount >= args.pool)]_vars

C4_Witness ==
    /\ args.pool = 1
    /\ pc = "executor"
    /\ RunningCount = 1
    /\ sleeping
    /\ \E t \in Range(tasks) : tis[key(t)] = "QUEUED"

\* C5: without continue_on_failures no run is processed after one that
\* ended FAILED, and the invocation then ends with a failure status; with
\* continue_on_failures the execution of a workflow ends only when every
\* delivered interval was processed, however many ended FAILED, and it
\* does end.
C5_ContinueOnFailures ==
    /\ [](~args.continue_on_failures =>
            \A i \in 1..(Len(processed) - 1) : runs[processed[i]] # "FAILED")
    /\ [](~args.continue_on_failures /\ pc = "done" /\ SomeProcessedFailed => status = 1)
    /\ [](args.continue_on_failures /\
            (pc = "run_end" \/ (pc = "executor" /\ dr = 0 /\ infos = <<>>)) =>
                ProcessedDates(dag) = RequestedOrder(dag))
    /\ (args.continue_on_failures /\ pc = "executor") ~> (pc # "executor")

C5_Witness ==
    /\ args.continue_on_failures
    /\ pc = "executor"
    /\ Len(processed) >= 2
    /\ processed[1][1] = processed[2][1]
    /\ runs[processed[1]] = "FAILED"

\* C6: the completion status reflects the outcome: a validation error or a
\* processed run that ended FAILED gives a non-zero status, and status 0 is
\* given only if every processed run reached SUCCESS.
C6_StatusReflectsOutcome ==
    /\ pc # "done" => status = -1
    /\ pc = "done" =>
        /\ status \in {0, 1}
        /\ error \in {"ProvideDates", "JSONDecodeError", "NoTasksMatch"} => status = 1
        /\ SomeProcessedFailed => status = 1
        /\ status = 0 => \A i \in 1..Len(processed) : runs[processed[i]] = "SUCCESS"

C6_Witness ==
    /\ pc = "done"
    /\ status = 1
    /\ error = "BackfillUnfinished"
    /\ args.continue_on_failures
    /\ Len(processed) >= 2
    /\ runs[processed[2]] = "SUCCESS"

\* C7 (as claimed): intervals are processed in ascending order, and in
\* exactly the reverse order under run_backwards, in real execution and in
\* the dry run alike.
C7_BackwardsIsReverse ==
    \A d \in DagIds :
        /\ IsPrefix(ProcessedDates(d), RequestedOrder(d))
        /\ IsPrefix(DryDates(d), RequestedOrder(d))

\* C8: the task subset is computed once per workflow and stays the same for
\* all its intervals; with upstream inclusion it contains every direct match
\* and is closed under the upstream relation, without it it is exactly the
\* set of direct matches (t0 -> t1 -> t2, pattern matching t2: {t0, t1, t2}
\* resp. {t2}).
C8_TaskSubset ==
    /\ [](InBody /\ args.task_regex # NoPattern =>
            /\ Range(tasks) \subseteq Range(DagTasks(dag))
            /\ IF ~args.ignore_dependencies
               THEN /\ DirectMatches(dag, args.task_regex) \subseteq Range(tasks)
                    /\ \A t \in Range(tasks) : Upstream(dag, t) \subseteq Range(tasks)
               ELSE Range(tasks) = DirectMatches(dag, args.task_regex)
            /\ (dag = "a" /\ args.task_regex = <<"2">>) =>
                  Range(tasks) = IF ~args.ignore_dependencies THEN {t0, t1, t2} ELSE {t2})
    /\ [](InBody => \A i \in 1..Len(dry_checks) :
            dry_checks[i][1] = dag => dry_checks[i][3] \in Range(tasks))
    /\ [][tasks' # tasks => pc = "for_dag"]_vars

C8_Witness ==
    /\ pc = "dry_loop"
    /\ dag = "a"
    /\ args.task_regex = <<"2">>
    /\ ~args.ignore_dependencies
    /\ Range(tasks) = {t0, t1, t2}
    /\ Len(DryDates("a")) = 2

\* C9: a requested reset that is neither confirmed nor pre-authorized
\* changes no RunRecord and no TaskRecord and does not end the backfill:
\* the next step is the execution; and execution never starts before the
\* requested reset step is over.
C9_UnconfirmedResetSkipped ==
    /\ [][(pc = "reset" /\ pc' # "reset" /\ ~args.yes /\ reset_log'[dag] # "yes") =>
            (UNCHANGED persisted /\ pc' = "run" /\ status' = -1)]_vars
    /\ [](pc \in {"run", "executor", "run_end"} /\ args.reset_dagruns =>
            reset_log[dag] # "none")

C9_Witness ==
    /\ pc = "executor"
    /\ args.reset_dagruns
    /\ ~args.yes
    /\ reset_log[dag] = "no"
    /\ dr = 1
    /\ \E t \in Range(tasks) : tis[key(t)] = "RUNNING"

\* The dry checks a complete dry run of workflow d makes: interval by
\* interval, ascending, the selected tasks in dag.tasks order.
RECURSIVE ChecksOf(_, _, _)
ChecksOf(d, dates, ts) ==
    IF dates = <<>> THEN <<>>
    ELSE [i \in 1..Len(ts) |-> <<d, Head(dates), ts[i]>>] \o ChecksOf(d, Tail(dates), ts)

RECURSIVE ExpectedChecks(_)
ExpectedChecks(i) ==
    IF i > Len(dags) THEN <<>>
    ELSE ChecksOf(dags[i], AscDates(dags[i]), SubsetTasks(dags[i])) \o ExpectedChecks(i + 1)

LocatedLines == SelectSeq(out, LAMBDA l : l[1] = "Task located in DAG")

\* C10: a dry run makes one trace line and one dry check per (interval,
\* selected task) pair, interval by interval in the delivered order, and
\* ends after interval count x task count of them.
C10_DryRunTrace ==
    /\ [](args.dry_run /\ pc # "dag_backfill" =>
            /\ IsPrefix(dry_checks, ExpectedChecks(1))
            /\ Len(LocatedLines) = Len(dry_checks)
            /\ \A i \in 1..Len(dry_checks) :
                  LocatedLines[i] = <<"Task located in DAG", dry_checks[i][3], dry_checks[i][1]>>
            /\ (pc = "done" /\ status = 0) => dry_checks = ExpectedChecks(1))
    /\ (args.dry_run ~> pc = "done")

C10_Witness ==
    /\ args.dry_run
    /\ pc = "done"
    /\ status = 0
    /\ Len(dags) = 2
    /\ Len(dry_checks) >= 8

\* The date of a single-date request has a logical run interval in the
\* schedule of workflow d.
OnSchedule(d, x) == x \in Dates /\ (x - 1) % Cadence(d) = 0

\* Dates of the current workflow's intervals: still to be delivered, being
\* walked, or already walked or executed.
Covered ==
    Range(infos) \cup (IF dr # 0 THEN {dr} ELSE {})
        \cup Range(ProcessedDates(dag)) \cup Range(DryDates(dag))

PastEntry == pc \notin {"dag_backfill", "run_dag_backfill"} /\ error # "ProvideDates"

Enumerated == pc \in {"dry_loop", "executor", "run_end"}

\* Every record of a date other than x is as it was before the invocation.
OnlyDateTouched(x) ==
    /\ \A k \in DOMAIN runs : k[2] # x => runs[k] = PriorRuns[k]
    /\ \A k \in DOMAIN tis : k[2] # x => tis[k] = PriorTis[k]

\* The defaulting of lines 64-65 as the claim states it, and its use by
\* every later step.
SingleDateUsed ==
    /\ [][(pc = "run_dag_backfill" /\ one_date) =>
            /\ args'.start_date = DateOr(args.start_date, args.end_date)
            /\ args'.end_date = DateOr(args.start_date, args.end_date)]_vars
    /\ [][pc # "run_dag_backfill" => args' = args]_vars
    /\ [](one_date /\ PastEntry =>
            /\ args.start_date = args.end_date
            /\ args.start_date # NoDate
            /\ OnlyDateTouched(args.start_date)
            /\ \A i \in 1..Len(processed) : processed[i][2] = args.start_date
            /\ \A i \in 1..Len(dry_checks) : dry_checks[i][2] = args.start_date)

CurRank == IF di <= Len(dags) THEN DagRank(dags[di]) ELSE Cardinality(DagIds) + 1

\* No step of workflow d has happened: no reset, no trace line, no dry
\* check, no run executed, no record changed.
Untouched(d) ==
    /\ reset_log[d] = "none"
    /\ \A i \in 1..Len(processed) : processed[i][1] # d
    /\ \A i \in 1..Len(dry_checks) : dry_checks[i][1] # d
    /\ \A i \in 1..Len(out) :
          IF out[i][1] = "Dry run of DAG" THEN out[i][2] # d ELSE out[i][3] # d
    /\ \A k \in DOMAIN runs : k[1] = d => runs[k] = PriorRuns[k]
    /\ \A k \in DOMAIN tis : k[1] = d => tis[k] = PriorTis[k]

\* Every step of workflow d is over: all its intervals were walked (dry run)
\* or executed to the end, and nothing of it is still running.
FinishedDag(d) ==
    /\ \A k \in DOMAIN runs : k[1] = d => runs[k] # "RUNNING"
    /\ \A k \in DOMAIN tis : k[1] = d => tis[k] # "RUNNING"
    /\ IF args.dry_run
       THEN Range(DryDates(d)) = WindowDates(d)
       ELSE /\ Range(ProcessedDates(d)) = WindowDates(d)
            /\ \A x \in WindowDates(d) : runs[<<d, x>>] = "SUCCESS"

\* C12: the workflows of one invocation are processed one at a time in
\* ascending identifier order: while one is processed every workflow with a
\* smaller identifier is finished and every one with a larger identifier is
\* untouched, a step changes records of the current workflow only, and
\* after an abort the later workflows stay untouched.
C12_OneWorkflowAtATime ==
    /\ [](PastEntry =>
            /\ \A i, j \in 1..Len(dags) : i < j => DagRank(dags[i]) < DagRank(dags[j])
            /\ \A d \in Range(dags) :
                  /\ DagRank(d) > CurRank => Untouched(d)
                  /\ DagRank(d) < CurRank => FinishedDag(d)
            /\ (pc = "for_dag" /\ di <= Len(dags)) => Untouched(dags[di]))
    /\ [][\A k \in DOMAIN runs : runs'[k] # runs[k] => k[1] = dag]_vars
    /\ [][\A k \in DOMAIN tis : tis'[k] # tis[k] => k[1] = dag]_vars

C12_Witness ==
    /\ pc = "done"
    /\ error = "BackfillUnfinished"
    /\ dags = <<"a", "b">>
    /\ di = 1
    /\ Len(ProcessedDates("a")) = 2
    /\ Untouched("b")

====
